---- MODULE Spec2Model ----
(***************************************************************************)
(* State-machine model of minecraft-ipv6/src/main.rs: the NameChecker     *)
(* (client pool, check_account_exists, attempt_claim, monitor_uuids) and   *)
(* the menu loop of main that feeds it.                                    *)
(*                                                                         *)
(* Spec      the core driven directly: NameChecker::new(auth_tokens,       *)
(*           ip_addresses) followed by monitor_uuids(uuid_map), for every  *)
(*           credential sequence (the empty one included), every target    *)
(*           mapping and a non-empty pool.                                 *)
(* FairSpec  Spec with the fairness the executor and the request timeouts  *)
(*           give: a step that can be taken is eventually taken.           *)
(* SpecMain  the whole program, from main's menu loop.                     *)
(*                                                                         *)
(* Scheduling.  monitor_uuids runs on one task.  The futures pushed into   *)
(* the FuturesUnordered run only while monitor_uuids is suspended in       *)
(* futures.next().await (line 139); their only suspension points are the   *)
(* two `.send().await?` (lines 62 and 79).  A step of the model is         *)
(* therefore the code between two suspension points.                       *)
(***************************************************************************)
EXTENDS Naturals, Sequences, FiniteSets, TLC

VARIABLES
    pc,                 \* control position of main / monitor_uuids
    main_auth_tokens,   \* main's `auth_tokens` (line 319)
    main_uuid_map,      \* main's `uuid_map` (line 318)
    checker,            \* the NameChecker: clients, auth_tokens, ip_addresses
    uuid_map,           \* monitor_uuids' `uuid_map` (line 89)
    futures,            \* the round's FuturesUnordered, one task per target
    cur,                \* the tuple futures.next() yielded, being printed
    sink,               \* the status lines written to stdout in this round
    ret,                \* what monitor_uuids returned
    calls,              \* per target, this round: GETs sent, attempt_claim
                        \* invocations, PUTs sent
    bearers             \* every credential sent in an Authorization header

vars == <<pc, main_auth_tokens, main_uuid_map, checker, uuid_map, futures,
          cur, sink, ret, calls, bearers>>

----------------------------------------------------------------------------
(* Bounds of the model. *)

MaxTargets == 2
MaxTokens == 2
MaxClients == 2

NameTable == <<"alice", "bob", "carol", "dave">>
TokenTable == <<"tokA", "tokB", "tokC", "tokD">>

Names == {NameTable[i] : i \in 1..MaxTargets}
Tokens == {TokenTable[i] : i \in 1..MaxTokens}

----------------------------------------------------------------------------
(* Status codes and responses of the two endpoints. *)

NO_CONTENT == 204
OK == 200
TOO_MANY_REQUESTS == 429

ProbeStatuses == {200, 204, 404, 429, 500}
ClaimStatuses == {200, 204, 403}
TransportErrors == {"connection refused"}

StatusResp(s) == [kind |-> "status", status |-> s, err |-> ""]
ErrResp(e) == [kind |-> "error", status |-> 0, err |-> e]
NoResp == [kind |-> "none", status |-> 0, err |-> ""]

ProbeResponses == {StatusResp(s) : s \in ProbeStatuses} \cup {ErrResp(e) : e \in TransportErrors}
ClaimResponses == {StatusResp(s) : s \in ClaimStatuses} \cup {ErrResp(e) : e \in TransportErrors}

----------------------------------------------------------------------------
(* Formatting. *)

DigitChars == <<"0", "1", "2", "3", "4", "5", "6", "7", "8", "9">>

RECURSIVE U16ToString(_)
U16ToString(n) ==
    IF n < 10 THEN DigitChars[n + 1]
    ELSE U16ToString(n \div 10) \o DigitChars[(n % 10) + 1]

NoTokensMsg == "No authentication tokens available"

Tuple(name, uuid, status, is_important, color) ==
    [name |-> name, uuid |-> uuid, status |-> status,
     is_important |-> is_important, color |-> color]

NoTuple == Tuple("", "", "", FALSE, "")

----------------------------------------------------------------------------
(* Inputs. *)

UuidOf(name) ==
    "uuid-" \o U16ToString(CHOOSE i \in 1..Len(NameTable) : NameTable[i] = name)

UuidMaps == {[n \in S |-> UuidOf(n)] : S \in SUBSET Names}

(* Credentials are opaque and a loaded list holds no duplicate: up to the  *)
(* names of the credentials, every list is a prefix of TokenTable.         *)
TokenLists == {SubSeq(TokenTable, 1, k) : k \in 0..MaxTokens}

IpAddresses == [i \in 1..MaxClients |-> i]

----------------------------------------------------------------------------
(* NameChecker. *)

New(auth_tokens, ip_addresses) ==
    [clients |-> {ip_addresses[i] : i \in 1..Len(ip_addresses)},
     auth_tokens |-> auth_tokens,
     ip_addresses |-> ip_addresses]

(* Variant: every request goes through one and the same client. *)
ChooseFirst(clients) == {CHOOSE c \in clients : TRUE}

(* self.clients.choose(&mut rng).unwrap(): the clients a request may be    *)
(* sent through, any member of the pool.                                   *)
Choose(clients) == clients

NoChecker == [clients |-> {}, auth_tokens |-> <<>>, ip_addresses |-> <<>>]

(* Variant: availability read off any 2xx status. *)
CheckAccountExistsIsSuccess(resp) ==
    IF resp.kind = "error"
    THEN [ok |-> FALSE, flag |-> FALSE, status |-> 0, err |-> resp.err]
    ELSE [ok |-> TRUE, flag |-> resp.status \in 200..299, status |-> resp.status, err |-> ""]

(* The value of check_account_exists once its request has resolved. *)
CheckAccountExists(resp) ==
    IF resp.kind = "error"
    THEN [ok |-> FALSE, flag |-> FALSE, status |-> 0, err |-> resp.err]
    ELSE [ok |-> TRUE, flag |-> resp.status = NO_CONTENT, status |-> resp.status, err |-> ""]

(* Variant: the latest credential of the list instead of the first. *)
GetTokenLast(auth_tokens) ==
    IF Len(auth_tokens) > 0 THEN <<auth_tokens[Len(auth_tokens)]>> ELSE <<>>

(* Variant: an empty credential when the list holds none. *)
GetTokenOrDefault(auth_tokens) ==
    IF Len(auth_tokens) > 0 THEN <<auth_tokens[1]>> ELSE <<"">>

(* self.auth_tokens.get(0): a sequence holding the credential, or empty. *)
GetToken(auth_tokens) ==
    IF Len(auth_tokens) > 0 THEN <<auth_tokens[1]>> ELSE <<>>

(* Variant: a claim counted as made on any 2xx status. *)
AttemptClaimSentIsSuccess(resp) ==
    IF resp.kind = "error"
    THEN [ok |-> FALSE, flag |-> FALSE, status |-> 0, err |-> resp.err]
    ELSE [ok |-> TRUE, flag |-> resp.status \in 200..299, status |-> resp.status, err |-> ""]

(* The value of attempt_claim once its request has resolved. *)
AttemptClaimSent(resp) ==
    IF resp.kind = "error"
    THEN [ok |-> FALSE, flag |-> FALSE, status |-> 0, err |-> resp.err]
    ELSE [ok |-> TRUE, flag |-> resp.status = OK, status |-> resp.status, err |-> ""]

(* The value of attempt_claim when there is no credential. *)
AttemptClaimNoToken == [ok |-> FALSE, flag |-> FALSE, status |-> 0, err |-> NoTokensMsg]

----------------------------------------------------------------------------
(* The task of one target (the async block of monitor_uuids). *)

(* Variant: the rate-limit test left out. *)
ProbeArmNoRateLimit(r) ==
    IF ~r.ok THEN "error"
    ELSE IF r.flag THEN "claim"
    ELSE "status"

(* Variant: the availability flag ignored. *)
ProbeArmAlwaysClaim(r) ==
    IF ~r.ok THEN "error"
    ELSE IF r.status = TOO_MANY_REQUESTS THEN "rate_limited"
    ELSE "claim"

(* The arm of the match on the probe's value. *)
ProbeArm(r) ==
    IF ~r.ok THEN "error"
    ELSE IF r.status = TOO_MANY_REQUESTS THEN "rate_limited"
    ELSE IF r.flag THEN "claim"
    ELSE "status"

(* A task ends with a tuple: futures.next() yields it and the body of the  *)
(* while loop goes on to print it.                                         *)
Yield(tuple) == [pc |-> "printing", cur |-> tuple, ret |-> "pending"]

(* Variant: the probe's error leaves monitor_uuids, as a `?` would. *)
ProbeErrArmFatal(name, uuid, e) ==
    [pc |-> "returned", cur |-> NoTuple, ret |-> "Err(" \o e \o ")"]

(* Line 134: the probe failed. *)
ProbeErrArm(name, uuid, e) ==
    Yield(Tuple(name, uuid, "ERROR: " \o e, FALSE, "White"))

(* Lines 102-109: the probe was rate-limited. *)
RateLimitedArm(name, uuid, check_status) ==
    Yield(Tuple(name, uuid, U16ToString(check_status), FALSE, "Red"))

(* Variant: the text carries the number of results already printed. *)
StatusArmCounting(name, uuid, check_status) ==
    Yield(Tuple(name, uuid, U16ToString(check_status + Len(sink)), FALSE, "White"))

(* Lines 124-132: the name is not available. *)
StatusArm(name, uuid, check_status) ==
    Yield(Tuple(name, uuid, U16ToString(check_status), FALSE, "White"))

(* Lines 112-119: attempt_claim returned a status. *)
ClaimOkArm(name, uuid, claimed, claim_status) ==
    Yield(Tuple(name, uuid,
                (IF claimed THEN "CLAIMED (" ELSE "FAILED TO CLAIM (")
                    \o U16ToString(claim_status) \o ")",
                TRUE, "Green"))

(* Variant: attempt_claim's error leaves monitor_uuids, as a `?` would. *)
ClaimErrArmFatal(name, uuid, e) ==
    [pc |-> "returned", cur |-> NoTuple, ret |-> "Err(" \o e \o ")"]

(* Lines 120-122: attempt_claim failed. *)
ClaimErrArm(name, uuid, e) ==
    Yield(Tuple(name, uuid, "ERROR: " \o e, FALSE, "White"))

(* The end of a task whose probe does not lead to a claim. *)
ProbeEnd(name, uuid, r) ==
    IF ProbeArm(r) = "error" THEN ProbeErrArm(name, uuid, r.err)
    ELSE IF ProbeArm(r) = "rate_limited" THEN RateLimitedArm(name, uuid, r.status)
    ELSE StatusArm(name, uuid, r.status)

(* The end of a task that called attempt_claim, on its value c. *)
ClaimEnd(name, uuid, c) ==
    IF c.ok THEN ClaimOkArm(name, uuid, c.flag, c.status)
    ELSE ClaimErrArm(name, uuid, c.err)

Task(st, client, bearer, probe, claim) ==
    [st |-> st, client |-> client, bearer |-> bearer, probe |-> probe, claim |-> claim]

NoCalls == [get |-> 0, attempt |-> 0, put |-> 0]

(* Variant: the round is taken as over as soon as one task has ended. *)
AnyDone == \E n \in DOMAIN futures : futures[n].st = "done"

AllDone == \A n \in DOMAIN futures : futures[n].st = "done"

----------------------------------------------------------------------------
(* monitor_uuids. *)

(* Variant: the claim of every target is sent along with its probe. *)
StartRoundEagerClaim ==
    /\ pc \in {"entry", "drained"}
    /\ \E choice \in [DOMAIN uuid_map -> Choose(checker.clients)] :
          futures' = [n \in DOMAIN uuid_map |->
                         Task("probing", choice[n], "", NoResp, NoResp)]
    /\ calls' = [n \in DOMAIN uuid_map |-> [NoCalls EXCEPT !.get = 1, !.put = 1]]
    /\ sink' = <<>>
    /\ pc' = "in_flight"
    /\ UNCHANGED <<main_auth_tokens, main_uuid_map, checker, uuid_map, cur, ret, bearers>>

(* Variant: a target whose probe failed in the round before is left out. *)
StartRoundSkipFailed ==
    /\ pc \in {"entry", "drained"}
    /\ \E choice \in [DOMAIN uuid_map -> Choose(checker.clients)] :
          futures' = [n \in DOMAIN uuid_map |->
                         IF n \in DOMAIN futures /\ futures[n].probe.kind = "error"
                         THEN futures[n]
                         ELSE Task("probing", choice[n], "", NoResp, NoResp)]
    /\ calls' = [n \in DOMAIN uuid_map |->
                    IF n \in DOMAIN futures /\ futures[n].probe.kind = "error"
                    THEN NoCalls
                    ELSE [NoCalls EXCEPT !.get = 1]]
    /\ sink' = <<>>
    /\ pc' = "in_flight"
    /\ UNCHANGED <<main_auth_tokens, main_uuid_map, checker, uuid_map, cur, ret, bearers>>

(* Lines 91-139: a round starts.  One future per entry of uuid_map is      *)
(* pushed; the first poll of futures.next() runs each up to the send of    *)
(* its probe, through a client chosen from the pool.  (A request needs     *)
(* network I/O, so no task ends within that first poll.)                   *)
StartRound ==
    /\ pc \in {"entry", "drained"}
    /\ \E choice \in [DOMAIN uuid_map -> Choose(checker.clients)] :
          futures' = [n \in DOMAIN uuid_map |->
                         Task("probing", choice[n], "", NoResp, NoResp)]
    /\ calls' = [n \in DOMAIN uuid_map |-> [NoCalls EXCEPT !.get = 1]]
    /\ sink' = <<>>
    /\ pc' = "in_flight"
    /\ UNCHANGED <<main_auth_tokens, main_uuid_map, checker, uuid_map, cur, ret, bearers>>

(* Lines 100-135, resumed at line 62: the probe of target n resolves with  *)
(* resp, and the task runs on to its end or to the send of the claim.      *)
ProbeResolve(n) ==
    /\ pc = "in_flight"
    /\ n \in DOMAIN futures
    /\ futures[n].st = "probing"
    /\ \E resp \in ProbeResponses :
          LET r == CheckAccountExists(resp)
              token == GetToken(checker.auth_tokens)
          IN  IF ProbeArm(r) # "claim"
              THEN /\ futures' = [futures EXCEPT ![n] = Task("done", 0, "", resp, NoResp)]
                   /\ cur' = ProbeEnd(n, uuid_map[n], r).cur
                   /\ pc' = ProbeEnd(n, uuid_map[n], r).pc
                   /\ ret' = ProbeEnd(n, uuid_map[n], r).ret
                   /\ UNCHANGED <<calls, bearers>>
              ELSE IF token = <<>>
              THEN /\ futures' = [futures EXCEPT ![n] = Task("done", 0, "", resp, NoResp)]
                   /\ cur' = ClaimEnd(n, uuid_map[n], AttemptClaimNoToken).cur
                   /\ pc' = ClaimEnd(n, uuid_map[n], AttemptClaimNoToken).pc
                   /\ ret' = ClaimEnd(n, uuid_map[n], AttemptClaimNoToken).ret
                   /\ calls' = [calls EXCEPT ![n].attempt = @ + 1]
                   /\ UNCHANGED bearers
              ELSE /\ \E c \in Choose(checker.clients) :
                          futures' = [futures EXCEPT
                                         ![n] = Task("claiming", c, token[1], resp, NoResp)]
                   /\ calls' = [calls EXCEPT ![n].attempt = @ + 1, ![n].put = @ + 1]
                   /\ bearers' = bearers \cup {token[1]}
                   /\ UNCHANGED <<cur, pc, ret>>
    /\ UNCHANGED <<main_auth_tokens, main_uuid_map, checker, uuid_map, sink>>

(* Lines 111-123, resumed at line 79: the claim of target n resolves. *)
ClaimResolve(n) ==
    /\ pc = "in_flight"
    /\ n \in DOMAIN futures
    /\ futures[n].st = "claiming"
    /\ \E resp \in ClaimResponses :
          /\ futures' = [futures EXCEPT
                            ![n] = Task("done", 0, "", futures[n].probe, resp)]
          /\ cur' = ClaimEnd(n, uuid_map[n], AttemptClaimSent(resp)).cur
          /\ pc' = ClaimEnd(n, uuid_map[n], AttemptClaimSent(resp)).pc
          /\ ret' = ClaimEnd(n, uuid_map[n], AttemptClaimSent(resp)).ret
    /\ UNCHANGED <<main_auth_tokens, main_uuid_map, checker, uuid_map, sink,
                   calls, bearers>>

(* Variant: the latest line is put before the lines already written. *)
EmitOkPrepend ==
    /\ pc = "printing"
    /\ sink' = <<cur>> \o sink
    /\ cur' = NoTuple
    /\ pc' = "in_flight"
    /\ UNCHANGED <<main_auth_tokens, main_uuid_map, checker, uuid_map, futures, ret,
                   calls, bearers>>

(* Lines 141-149: every write to stdout succeeds. *)
EmitOk ==
    /\ pc = "printing"
    /\ sink' = Append(sink, cur)
    /\ cur' = NoTuple
    /\ pc' = "in_flight"
    /\ UNCHANGED <<main_auth_tokens, main_uuid_map, checker, uuid_map, futures, ret,
                   calls, bearers>>

(* Variant: the error of a failed write is held back and the round goes on. *)
EmitFailDeferred ==
    /\ pc = "printing"
    /\ cur' = NoTuple
    /\ ret' = "Err(io)"
    /\ pc' = "in_flight"
    /\ UNCHANGED <<main_auth_tokens, main_uuid_map, checker, uuid_map, futures, sink,
                   calls, bearers>>

(* Lines 141-149: a write to stdout fails and `?` returns the error. *)
EmitFail ==
    /\ pc = "printing"
    /\ cur' = NoTuple
    /\ ret' = "Err(io)"
    /\ pc' = "returned"
    /\ UNCHANGED <<main_auth_tokens, main_uuid_map, checker, uuid_map, futures, sink,
                   calls, bearers>>

(* Line 149, at line 200: the text of the status has been written and the   *)
(* println!() of println_colored fails to write the line's end; println!   *)
(* panics, the panic unwinds main and the process ends without             *)
(* monitor_uuids having returned a value (ret records the unwinding).      *)
EmitPanic ==
    /\ pc = "printing"
    /\ cur' = NoTuple
    /\ ret' = "panic"
    /\ pc' = "exited"
    /\ UNCHANGED <<main_auth_tokens, main_uuid_map, checker, uuid_map, futures, sink,
                   calls, bearers>>

(* Variant: a name that was claimed is taken out of the mapping. *)
EndRoundDropClaimed ==
    /\ pc = "in_flight"
    /\ AllDone
    /\ pc' = "drained"
    /\ uuid_map' = [n \in {m \in DOMAIN uuid_map : futures[m].claim # StatusResp(OK)} |->
                       uuid_map[n]]
    /\ UNCHANGED <<main_auth_tokens, main_uuid_map, checker, futures, cur,
                   sink, ret, calls, bearers>>

(* Variant: monitor_uuids returns once the round is drained. *)
EndRoundReturns ==
    /\ pc = "in_flight"
    /\ AllDone
    /\ pc' = "returned"
    /\ ret' = "Ok"
    /\ UNCHANGED <<main_auth_tokens, main_uuid_map, checker, uuid_map, futures, cur,
                   sink, calls, bearers>>

(* Line 139: futures.next() yields None, the while loop ends and the loop  *)
(* of line 91 goes round.                                                  *)
EndRound ==
    /\ pc = "in_flight"
    /\ AllDone
    /\ pc' = "drained"
    /\ UNCHANGED <<main_auth_tokens, main_uuid_map, checker, uuid_map, futures, cur,
                   sink, ret, calls, bearers>>

Monitor ==
    \/ StartRound
    \/ \E n \in Names : ProbeResolve(n)
    \/ \E n \in Names : ClaimResolve(n)
    \/ EmitOk
    \/ EmitFail
    \/ EmitPanic
    \/ EndRound

----------------------------------------------------------------------------
(* The core, driven directly. *)

Init ==
    /\ pc = "entry"
    /\ main_auth_tokens = <<>>
    /\ main_uuid_map = <<>>
    /\ \E toks \in TokenLists : checker = New(toks, IpAddresses)
    /\ uuid_map \in UuidMaps
    /\ futures = <<>>
    /\ cur = NoTuple
    /\ sink = <<>>
    /\ ret = "pending"
    /\ calls = <<>>
    /\ bearers = {}

Next == Monitor

Spec == Init /\ [][Next]_vars

----------------------------------------------------------------------------
(* main: the menu loop. *)

(* Choice 1, lines 327-347: load_tokens_from_file yields a de-duplicated   *)
(* list (possibly empty), or fails and leaves the list as it was.          *)
MenuLoadTokens ==
    /\ pc = "menu"
    /\ \/ \E toks \in TokenLists : main_auth_tokens' = toks
       \/ main_auth_tokens' = main_auth_tokens
    /\ UNCHANGED <<pc, main_uuid_map, checker, uuid_map, futures, cur, sink, ret,
                   calls, bearers>>

(* Choice 2, lines 349-397: every username whose lookup succeeds is        *)
(* inserted with its identifier.                                           *)
MenuGetUuids ==
    /\ pc = "menu"
    /\ \E found \in SUBSET Names :
          main_uuid_map' = [n \in found \cup DOMAIN main_uuid_map |->
                               IF n \in found THEN UuidOf(n) ELSE main_uuid_map[n]]
    /\ UNCHANGED <<pc, main_auth_tokens, checker, uuid_map, futures, cur, sink, ret,
                   calls, bearers>>

(* Variant: choice 3 checks the credentials only. *)
MenuRunNoUuidCheck ==
    /\ pc = "menu"
    /\ IF main_auth_tokens = <<>>
       THEN UNCHANGED <<pc, checker, uuid_map>>
       ELSE /\ checker' = New(main_auth_tokens, IpAddresses)
            /\ uuid_map' = main_uuid_map
            /\ pc' = "entry"
    /\ UNCHANGED <<main_auth_tokens, main_uuid_map, futures, cur, sink, ret, calls,
                   bearers>>

(* Choice 3, lines 398-429. *)
MenuRun ==
    /\ pc = "menu"
    /\ IF main_auth_tokens = <<>> \/ DOMAIN main_uuid_map = {}
       THEN UNCHANGED <<pc, checker, uuid_map>>
       ELSE /\ checker' = New(main_auth_tokens, IpAddresses)
            /\ uuid_map' = main_uuid_map
            /\ pc' = "entry"
    /\ UNCHANGED <<main_auth_tokens, main_uuid_map, futures, cur, sink, ret, calls,
                   bearers>>

(* Choice 4, any other number, or no number: lines 430-465. *)
MenuOther ==
    /\ pc = "menu"
    /\ UNCHANGED vars

(* Any `?` of the menu loop on a failed read of stdin or write to stdout. *)
MenuIoError ==
    /\ pc = "menu"
    /\ pc' = "exited"
    /\ UNCHANGED <<main_auth_tokens, main_uuid_map, checker, uuid_map, futures, cur,
                   sink, ret, calls, bearers>>

(* Line 428: the `?` on monitor_uuids' value. *)
MainPropagate ==
    /\ pc = "returned"
    /\ pc' = "exited"
    /\ UNCHANGED <<main_auth_tokens, main_uuid_map, checker, uuid_map, futures, cur,
                   sink, ret, calls, bearers>>

InitMain ==
    /\ pc = "menu"
    /\ main_auth_tokens = <<>>
    /\ main_uuid_map = <<>>
    /\ checker = NoChecker
    /\ uuid_map = <<>>
    /\ futures = <<>>
    /\ cur = NoTuple
    /\ sink = <<>>
    /\ ret = "pending"
    /\ calls = <<>>
    /\ bearers = {}

NextMain ==
    \/ MenuLoadTokens
    \/ MenuGetUuids
    \/ MenuRun
    \/ MenuOther
    \/ MenuIoError
    \/ MainPropagate
    \/ Monitor

SpecMain == InitMain /\ [][NextMain]_vars

----------------------------------------------------------------------------
(* Fairness.  Every request resolves (each client has a 10 s timeout,      *)
(* line 35), the executor runs a task whose request has resolved, and a    *)
(* write to stdout ends one way or the other: while monitor_uuids has not  *)
(* returned, a step that can be taken is taken.                            *)

Fairness == WF_vars(Next)

FairSpec == Spec /\ Fairness

----------------------------------------------------------------------------
(* Vocabulary of the properties. *)

(* The tuples that have left their task: written to stdout in this round,  *)
(* or being written.                                                       *)
OutTuples == {sink[i] : i \in 1..Len(sink)} \cup (IF pc = "printing" THEN {cur} ELSE {})

TuplesOf(n) == {e \in OutTuples : e.name = n}

SinkCount(n) == Cardinality({i \in 1..Len(sink) : sink[i].name = n /\ sink[i].uuid = uuid_map[n]})

StatusText ==
    (200 :> "200") @@ (204 :> "204") @@ (403 :> "403") @@ (404 :> "404")
        @@ (429 :> "429") @@ (500 :> "500")

ProbeStatus(n, s) == futures[n].probe = StatusResp(s)

ProbeOther(n) ==
    /\ futures[n].probe.kind = "status"
    /\ futures[n].probe.status \notin {204, 429}

ClaimedTexts == {"CLAIMED (" \o StatusText[s] \o ")" : s \in ClaimStatuses}
FailedTexts == {"FAILED TO CLAIM (" \o StatusText[s] \o ")" : s \in ClaimStatuses}

----------------------------------------------------------------------------
(* C1: when a round is drained, stdout holds exactly one tuple for every   *)
(* target of uuid_map and nothing else; at no time does it hold two for    *)
(* one target.                                                             *)
C1_ExactlyOneResultPerTarget ==
    /\ \A n \in DOMAIN uuid_map : SinkCount(n) <= 1
    /\ pc = "drained" =>
          /\ \A n \in DOMAIN uuid_map : SinkCount(n) = 1
          /\ Len(sink) = Cardinality(DOMAIN uuid_map)

C1_Witness ==
    /\ pc = "drained"
    /\ Cardinality(DOMAIN uuid_map) >= 2
    /\ \E i, j \in 1..Len(sink) : sink[i].status # sink[j].status

(* C2: in a round, attempt_claim is invoked for a target exactly when its  *)
(* probe came back with status 204, at most once, and only after the       *)
(* target's own probe of the round was sent and answered.                  *)
C2_ClaimIffAvailable ==
    \A n \in DOMAIN futures :
        /\ calls[n].attempt \in {0, 1}
        /\ calls[n].attempt = 1 <=>
               /\ futures[n].probe.kind = "status"
               /\ futures[n].probe.status = 204
               /\ futures[n].probe.status # 429
        /\ futures[n].probe.kind = "error" => calls[n].attempt = 0 /\ calls[n].put = 0
        /\ calls[n].attempt = 1 => calls[n].get = 1 /\ futures[n].probe.kind # "none"
        /\ calls[n].put <= calls[n].attempt

C2_Witness ==
    \E n, m \in DOMAIN futures :
        /\ calls[n].attempt = 1 /\ ProbeStatus(n, 204)
        /\ calls[m].attempt = 0 /\ futures[m].probe.kind = "error"

(* C3: probe 204 and claim 200 give "CLAIMED (200)"; probe 204 and claim   *)
(* status S other than 200 give "FAILED TO CLAIM (S)"; no other pair of    *)
(* answers gives either text.                                              *)
C3_ClaimOutcomeText ==
    \A e \in OutTuples :
        LET p == futures[e.name].probe
            c == futures[e.name].claim
        IN  /\ (p = StatusResp(204) /\ c = StatusResp(200)) => e.status = "CLAIMED (200)"
            /\ (p = StatusResp(204) /\ c.kind = "status" /\ c.status # 200) =>
                   e.status = "FAILED TO CLAIM (" \o StatusText[c.status] \o ")"
            /\ e.status \in ClaimedTexts => (p = StatusResp(204) /\ c = StatusResp(200))
            /\ e.status \in FailedTexts =>
                   (p = StatusResp(204) /\ c.kind = "status" /\ c.status # 200)

C3_Witness ==
    \E i, j \in 1..Len(sink) :
        /\ sink[i].status = "CLAIMED (200)"
        /\ sink[j].status = "FAILED TO CLAIM (204)"

(* C4: a probe answered 429 ends the task with the text "429", not         *)
(* emphasised, red, and neither attempt_claim nor the claim endpoint is    *)
(* reached for that target in the round.                                   *)
C4_RateLimited ==
    \A n \in DOMAIN futures :
        ProbeStatus(n, 429) =>
            /\ calls[n].attempt = 0
            /\ calls[n].put = 0
            /\ futures[n].st = "done"
            /\ ret = "pending" => TuplesOf(n) = {Tuple(n, uuid_map[n], "429", FALSE, "Red")}

C4_Witness ==
    /\ pc = "drained"
    /\ \E n \in DOMAIN futures : ProbeStatus(n, 429) /\ calls[n].put = 0 /\ SinkCount(n) = 1

(* C5: a probe answered with a status other than 204 and 429 ends the task *)
(* with that status in decimal, not emphasised, white, and no claim is     *)
(* attempted for that target in the round.                                 *)
C5_OtherStatus ==
    \A n \in DOMAIN futures :
        ProbeOther(n) =>
            /\ calls[n].attempt = 0
            /\ calls[n].put = 0
            /\ futures[n].st = "done"
            /\ ret = "pending" =>
                   TuplesOf(n) = {Tuple(n, uuid_map[n], StatusText[futures[n].probe.status],
                                        FALSE, "White")}

C5_Witness ==
    \E n, m \in DOMAIN futures :
        /\ ProbeStatus(n, 200) /\ ProbeStatus(m, 500)
        /\ SinkCount(n) = 1 /\ SinkCount(m) = 1

(* What a target's tuple must read, told from the target's own answers. *)
OwnOutcome(n) ==
    LET p == futures[n].probe
        c == futures[n].claim
    IN  IF p.kind = "error" THEN "ERROR: " \o p.err
        ELSE IF p.status # 204 THEN StatusText[p.status]
        ELSE IF c.kind = "error" THEN "ERROR: " \o c.err
        ELSE IF c.kind = "none" THEN "ERROR: No authentication tokens available"
        ELSE IF c.status = 200 THEN "CLAIMED (200)"
        ELSE "FAILED TO CLAIM (" \o StatusText[c.status] \o ")"

ProbeFailed(n) == futures[n].probe.kind = "error"
ClaimFailed(n) == futures[n].claim.kind = "error"

HadTransportError == \E n \in DOMAIN futures : ProbeFailed(n) \/ ClaimFailed(n)

MissingCredentialHit(n) == checker.auth_tokens = <<>> /\ calls[n].attempt = 1

(* C6: a transport failure of a probe or of a claim ends that task with    *)
(* "ERROR: <detail>", white and not emphasised; it never becomes the value *)
(* of monitor_uuids; every tuple of the round still reads what its own     *)
(* target's answers say; the round drains with one tuple per target and    *)
(* the next round can start.                                               *)
C6_TransportErrorContained ==
    HadTransportError =>
        /\ ret \in {"pending", "Err(io)", "panic"}
        /\ \A n \in DOMAIN futures :
              /\ ProbeFailed(n) =>
                    /\ futures[n].st = "done"
                    /\ ret = "pending" =>
                          TuplesOf(n) = {Tuple(n, uuid_map[n],
                                               "ERROR: " \o futures[n].probe.err,
                                               FALSE, "White")}
              /\ ClaimFailed(n) =>
                    /\ futures[n].st = "done"
                    /\ ret = "pending" =>
                          TuplesOf(n) = {Tuple(n, uuid_map[n],
                                               "ERROR: " \o futures[n].claim.err,
                                               FALSE, "White")}
        /\ \A e \in OutTuples : e.status = OwnOutcome(e.name)
        /\ pc = "drained" =>
              /\ \A n \in DOMAIN uuid_map : SinkCount(n) = 1
              /\ ENABLED StartRound

C6_Witness ==
    /\ pc = "drained"
    /\ \E n, m \in DOMAIN futures :
          /\ ProbeFailed(n)
          /\ futures[m].claim = StatusResp(200)
          /\ \E i, j \in 1..Len(sink) :
                /\ i < j
                /\ sink[i].name = n /\ sink[i].status = "ERROR: connection refused"
                /\ sink[j].name = m /\ sink[j].status = "CLAIMED (200)"

(* C7: with no credential, attempt_claim for a target whose probe was      *)
(* answered 204 returns the error "No authentication tokens available":    *)
(* no client is chosen and no request reaches the claim endpoint.          *)
C7_NoCredentialNoRequest ==
    checker.auth_tokens = <<>> =>
        /\ bearers = {}
        /\ \A n \in DOMAIN futures :
              /\ calls[n].put = 0
              /\ futures[n].st # "claiming"
              /\ ProbeStatus(n, 204) =>
                    /\ calls[n].attempt = 1
                    /\ futures[n].st = "done"
                    /\ futures[n].client = 0
                    /\ futures[n].claim = NoResp
                    /\ \A e \in TuplesOf(n) :
                          e.status = "ERROR: No authentication tokens available"

C7_Witness ==
    /\ checker.auth_tokens = <<>>
    /\ pc = "printing"
    /\ ProbeStatus(cur.name, 204)
    /\ calls[cur.name].attempt = 1
    /\ calls[cur.name].put = 0

(* C8 as claimed: once attempt_claim has met the missing credential,       *)
(* monitor_uuids has returned that error to its caller.                    *)
C8_Original ==
    \A n \in DOMAIN futures :
        MissingCredentialHit(n) =>
            /\ pc = "returned"
            /\ ret = "Err(No authentication tokens available)"

(* C8 as amended: the missing credential is not surfaced to the caller of  *)
(* monitor_uuids.  It becomes the target's ordinary tuple, white and not   *)
(* emphasised; monitor_uuids returns nothing on its account, the round     *)
(* drains with one tuple per target and the next round can start.          *)
C8_MissingCredentialIsAResult ==
    \A n \in DOMAIN futures :
        MissingCredentialHit(n) =>
            /\ ret \in {"pending", "Err(io)", "panic"}
            /\ ret = "pending" =>
                  TuplesOf(n) = {Tuple(n, uuid_map[n],
                                       "ERROR: No authentication tokens available",
                                       FALSE, "White")}
            /\ pc = "drained" =>
                  /\ \A m \in DOMAIN uuid_map : SinkCount(m) = 1
                  /\ ENABLED StartRound

C8_Witness ==
    /\ pc = "drained"
    /\ Cardinality(DOMAIN futures) >= 2
    /\ \A n \in DOMAIN futures : MissingCredentialHit(n)

C10_FirstCredentialOnly ==
    /\ [](/\ bearers \subseteq {checker.auth_tokens[i] : i \in {1} \cap DOMAIN checker.auth_tokens}
          /\ \A n \in DOMAIN futures :
                futures[n].st = "claiming" =>
                    /\ Len(checker.auth_tokens) >= 1
                    /\ futures[n].bearer = checker.auth_tokens[1])
    /\ [][checker.auth_tokens' = checker.auth_tokens]_vars

C10_Witness ==
    /\ Len(checker.auth_tokens) >= 2
    /\ \E n, m \in DOMAIN futures :
          /\ n # m
          /\ futures[n].st = "claiming" /\ futures[m].st = "claiming"
          /\ futures[n].client # futures[m].client
          /\ futures[n].bearer = futures[m].bearer

(* C11: the results of a round are a function of the endpoints' answers:   *)
(* whatever the interleaving, the order of completion and the clients      *)
(* chosen, every tuple reads what its own target's answers say, and a      *)
(* drained round has printed exactly the collection of (target, outcome)   *)
(* pairs those answers determine.                                          *)
C11_OutcomesDeterminedByResponses ==
    /\ \A e \in OutTuples :
          /\ e.name \in DOMAIN uuid_map
          /\ e.uuid = uuid_map[e.name]
          /\ e.status = OwnOutcome(e.name)
    /\ pc = "drained" =>
          /\ Len(sink) = Cardinality(DOMAIN uuid_map)
          /\ \A n \in DOMAIN uuid_map :
                Cardinality({i \in 1..Len(sink) :
                                sink[i].name = n /\ sink[i].status = OwnOutcome(n)}) = 1

C11_Witness ==
    /\ pc = "drained"
    /\ Len(sink) = 2
    /\ sink[1].name = NameTable[2] /\ sink[1].status = "CLAIMED (200)"
    /\ sink[2].name = NameTable[1] /\ sink[2].status = "404"

(* C12: for an available target (probe 204) the emphasis tells a claim     *)
(* that succeeded from one that failed: claim 200 gives an emphasised,     *)
(* green tuple; any other claim status gives a tuple that is not           *)
(* emphasised and white.                                                   *)
C12_EmphasisFollowsClaimSuccess ==
    \A e \in OutTuples :
        LET p == futures[e.name].probe
            c == futures[e.name].claim
        IN  p = StatusResp(204) =>
                /\ c = StatusResp(200) => (e.is_important /\ e.color = "Green")
                /\ (c.kind = "status" /\ c.status # 200) =>
                       (~e.is_important /\ e.color = "White")

InFlight(n) == futures[n].st \in {"probing", "claiming"}

(* A step that launches the probes of a round. *)
ProbesLaunched ==
    \E n \in DOMAIN futures' :
        /\ futures'[n].st = "probing"
        /\ n \in DOMAIN futures => futures[n].st # "probing"

(* C13: rounds never overlap.  The probes of a round are launched only     *)
(* when no task of the round before is unresolved and every one of its     *)
(* tuples has been printed; a claim is launched only by its own target's   *)
(* probe of the running round; a request is in flight only inside a round. *)
C13_RoundsNeverOverlap ==
    /\ [](\A n \in DOMAIN futures :
             InFlight(n) => pc \in {"in_flight", "printing", "returned", "exited"})
    /\ [][ProbesLaunched =>
             /\ pc \in {"entry", "drained"}
             /\ cur = NoTuple
             /\ \A m \in DOMAIN futures : futures[m].st = "done" /\ SinkCount(m) = 1
             /\ \A m \in DOMAIN futures' : futures'[m].st = "probing"]_vars
    /\ [][\A n \in DOMAIN futures' :
             (futures'[n].st = "claiming" /\ n \in DOMAIN futures /\ futures[n].st # "claiming")
                 => (pc = "in_flight" /\ futures[n].st = "probing")]_vars

C13_Witness ==
    /\ pc = "in_flight"
    /\ bearers # {}
    /\ sink = <<>>
    /\ Cardinality(DOMAIN futures) >= 2
    /\ \A n \in DOMAIN futures : futures[n].st = "probing"

(* C14: in a round every target is probed exactly once and claimed at most *)
(* once: a task that has ended is not run again and sends nothing more     *)
(* before the round is drained.  The round after a drained one probes      *)
(* every target afresh, those that failed included.                        *)
C14_OneAttemptPerRound ==
    /\ [](\A n \in DOMAIN futures :
             /\ calls[n].get = 1
             /\ calls[n].attempt <= 1
             /\ calls[n].put <= 1)
    /\ [][\A n \in DOMAIN futures :
             (futures[n].st = "done" /\ pc \in {"in_flight", "printing"}) =>
                 (futures'[n] = futures[n] /\ calls'[n] = calls[n])]_vars
    /\ [][(pc = "drained" /\ pc' # "drained") =>
             \A n \in DOMAIN uuid_map :
                 /\ futures'[n] = Task("probing", futures'[n].client, "", NoResp, NoResp)
                 /\ calls'[n] = [get |-> 1, attempt |-> 0, put |-> 0]]_vars

C14_Witness ==
    /\ pc = "in_flight"
    /\ bearers # {}
    /\ \E n, m \in DOMAIN futures :
          /\ ProbeFailed(n) /\ calls[n] = [get |-> 1, attempt |-> 0, put |-> 0]
          /\ SinkCount(n) = 1
          /\ futures[m].st = "probing" /\ calls[m].get = 1

Resolved == {n \in DOMAIN futures : futures[n].st = "done"}

Printed == {sink[i].name : i \in 1..Len(sink)}

(* C15: tuples reach stdout in the order in which their tasks end, one at  *)
(* a time.  While monitor_uuids runs, every ended task has its tuple on    *)
(* stdout, except the one being printed; when a task ends, the tuples of   *)
(* all tasks that ended before it are already on stdout; and stdout only   *)
(* grows at its end within a round.  (That a tuple is printed while other  *)
(* tasks are in flight, and out of input order, is the witness.)           *)
C15_EmittedInResolutionOrder ==
    /\ [](ret = "pending" =>
             Resolved = Printed \cup (IF pc = "printing" THEN {cur.name} ELSE {}))
    /\ [][\A n \in DOMAIN futures :
             (futures[n].st # "done" /\ n \in DOMAIN futures' /\ futures'[n].st = "done") =>
                 \A m \in Resolved : SinkCount(m) = 1]_vars
    /\ [][\/ sink' = sink
          \/ sink' = Append(sink, cur) /\ pc = "printing"
          \/ sink' = <<>> /\ pc \in {"entry", "drained"}]_vars

C15_Witness ==
    /\ pc = "in_flight"
    /\ Len(sink) = 1
    /\ sink[1].name = NameTable[2]
    /\ NameTable[1] \in DOMAIN futures
    /\ futures[NameTable[1]].st = "claiming"

MonitorPcs == {"entry", "in_flight", "printing", "drained", "returned"}

(* C16: the target mapping is read-only during monitoring.  From the call  *)
(* of monitor_uuids on, its mapping is the one main passed and neither     *)
(* copy changes in any step; every round runs one task per entry of it and *)
(* a drained round has printed exactly its (name, identifier) pairs; and   *)
(* control never comes back to the menu.                                   *)
C16_TargetsReadOnly ==
    /\ [](pc \in MonitorPcs =>
             /\ uuid_map = main_uuid_map
             /\ pc # "entry" => DOMAIN futures = DOMAIN uuid_map
             /\ \A e \in OutTuples :
                   e.name \in DOMAIN uuid_map /\ e.uuid = uuid_map[e.name]
             /\ pc = "drained" =>
                   {<<sink[i].name, sink[i].uuid>> : i \in 1..Len(sink)}
                       = {<<n, uuid_map[n]>> : n \in DOMAIN uuid_map})
    /\ [][(pc \in MonitorPcs) =>
             /\ uuid_map' = uuid_map
             /\ main_uuid_map' = main_uuid_map
             /\ pc' # "menu"]_vars

C16_Witness ==
    /\ pc = "drained"
    /\ Cardinality(DOMAIN uuid_map) >= 2
    /\ uuid_map = main_uuid_map
    /\ \E n \in DOMAIN futures : futures[n].claim = StatusResp(200)

----------------------------------------------------------------------------
(* Choice 3 turns the request down: lines 399 and 408. *)
GateRefuses == main_auth_tokens = <<>> \/ DOMAIN main_uuid_map = {}

----------------------------------------------------------------------------
(* C18: the pool holds one client per source address given to new, is      *)
(* never empty and never changes; every request in flight goes through a   *)
(* client of the pool; at the start of a round every assignment of pool    *)
(* clients to the probes can be taken, and whatever client a probe went    *)
(* through, the claim that follows it can go through any client of the     *)
(* pool, the same one or another.                                          *)
C18_ClientChosenPerRequest ==
    /\ [](/\ checker.clients =
                {checker.ip_addresses[i] : i \in 1..Len(checker.ip_addresses)}
          /\ Cardinality(checker.clients) = Len(checker.ip_addresses)
          /\ checker.clients # {}
          /\ \A n \in DOMAIN futures :
                InFlight(n) => futures[n].client \in checker.clients
          /\ pc \in {"entry", "drained"} =>
                \A choice \in [DOMAIN uuid_map -> checker.clients] :
                   ENABLED (/\ StartRound
                            /\ \A n \in DOMAIN uuid_map :
                                  futures'[n].client = choice[n])
          /\ (pc = "in_flight" /\ checker.auth_tokens # <<>>) =>
                \A n \in DOMAIN futures :
                   futures[n].st = "probing" =>
                      \A c \in checker.clients :
                         ENABLED (/\ ProbeResolve(n)
                                  /\ futures'[n].st = "claiming"
                                  /\ futures'[n].client = c))
    /\ [][checker' = checker]_vars

C18_Witness ==
    /\ pc = "in_flight"
    /\ \E n, m \in DOMAIN futures :
          /\ n # m
          /\ futures[n].st = "claiming"
          /\ futures[n].client = 2
          /\ futures[m].st = "probing"
          /\ futures[m].client = 1
          /\ ENABLED (/\ ProbeResolve(m)
                      /\ futures'[m].st = "claiming"
                      /\ futures'[m].client = 2)

----------------------------------------------------------------------------
(* C19: monitor_uuids has a value only once it has returned, and that      *)
(* value is the error of a failed write to stdout; it returns in one step  *)
(* from the emission of a result, whenever a result is being emitted that  *)
(* step is possible, and the result whose emission failed is not among     *)
(* the complete lines, so fewer lines than targets were written; after     *)
(* the return no line is written, no request is sent or resolved and no    *)
(* round starts.                                                           *)
C19_SinkFailureReturnsMidRound ==
    /\ [](/\ ret \notin {"pending", "panic"} <=> pc = "returned"
          /\ pc = "returned" =>
                /\ ret = "Err(io)"
                /\ Len(sink) < Cardinality(DOMAIN uuid_map)
                /\ Resolved \ Printed # {}
          /\ pc = "printing" => ENABLED (Next /\ pc' = "returned"))
    /\ [][(pc' = "returned" /\ pc # "returned") =>
             (/\ pc = "printing"
              /\ ret' = "Err(io)"
              /\ UNCHANGED <<sink, futures, calls>>)]_vars
    /\ [][(pc = "returned") => UNCHANGED <<pc, ret, sink, futures, calls, bearers>>]_vars

C19_Witness ==
    /\ pc = "returned"
    /\ ret = "Err(io)"
    /\ \E n, m \in DOMAIN futures :
          /\ InFlight(n)
          /\ futures[m].st = "done"
          /\ m \notin Printed

----------------------------------------------------------------------------
(* The requests of target n sent in this round, those of them that have    *)
(* been answered, and those still out.                                     *)
Sent(n) == calls[n].get + calls[n].put

Answered(n) ==
    (IF futures[n].probe # NoResp THEN 1 ELSE 0)
        + (IF futures[n].claim # NoResp THEN 1 ELSE 0)

Outstanding(n) == Sent(n) - Answered(n)

(* C20: at every moment every target has at most one request out, its      *)
(* probe or its claim: the claim is sent only after the probe was          *)
(* answered and neither is sent twice in a round.  Hence the requests out  *)
(* at one time are never more than the targets of the mapping.             *)
C20_OneRequestInFlightPerTarget ==
    /\ DOMAIN calls = DOMAIN futures
    /\ \A n \in DOMAIN futures :
          /\ calls[n].get <= 1
          /\ calls[n].put <= 1
          /\ Outstanding(n) \in {0, 1}
          /\ Outstanding(n) = 1 <=> InFlight(n)
          /\ futures[n].st = "probing" =>
                calls[n].put = 0 /\ futures[n].probe = NoResp
          /\ futures[n].st = "claiming" =>
                calls[n].get = 1 /\ futures[n].probe # NoResp /\ futures[n].claim = NoResp
          /\ calls[n].put = 1 => futures[n].probe # NoResp
    /\ Cardinality({<<n, k>> \in (DOMAIN futures) \X {1, 2} : k <= Outstanding(n)})
          <= Cardinality(DOMAIN uuid_map)

C20_Witness ==
    /\ pc = "in_flight"
    /\ Cardinality(DOMAIN uuid_map) = MaxTargets
    /\ \A n \in DOMAIN futures : Outstanding(n) = 1
    /\ \E n, m \in DOMAIN futures :
          futures[n].st = "probing" /\ futures[m].st = "claiming"

====
